---- MODULE Spec2Model ----
(***************************************************************************)
(* A model of the RAG demo (MohammedJayyab/RAG_Adv):                       *)
(*   - rag_helper.load_and_preprocess_documents     (LoadSpec)             *)
(*   - pure_semantic_chunker.apply_semantic_chunking (FallbackSpec,        *)
(*     ChunkSpec)                                                          *)
(*   - embedding_manager.EmbeddingManager            (StoreSpec)           *)
(*   - main.main, main.run_search_mode, llm_manager  (MainSpec)            *)
(* A text is a sequence of one-character strings.  Scores and thresholds   *)
(* are in hundredths (0.9 is 90).                                          *)
(***************************************************************************)
EXTENDS Integers, Sequences, FiniteSets, TLC

VARIABLES
    \* load_and_preprocess_documents
    file,            \* the knowledge file: missing, unreadable, or its content
    load_pc,         \* "idle" before the call, "done" after it returned
    load_ret,        \* the returned list of sections
    \* the fallback branch of apply_semantic_chunking, on one text
    fb_text,         \* the section text
    fb_pc,           \* "idle" | "done"
    fb_chunks,       \* the chunks the fallback appended
    fb_metadata,     \* the metadata records the fallback appended
    \* apply_semantic_chunking
    texts,           \* the argument: the list of sections
    chunk_pc,        \* "idle" | "loop" | "done"
    i,               \* the loop index of `for i, text in enumerate(texts)` (0-based)
    all_chunks,      \* all_chunks
    chunk_metadata,  \* chunk_metadata
    split_outcomes,  \* history: what chunker.split_text did for each section so far
    \* EmbeddingManager
    vector_store,    \* the persisted records of the collection, in insertion order
    call,            \* the last call on the manager, its arguments and what it returned
    passed,          \* history: chunks passed to successful ingests since the last successful clear
    clean,           \* history: no ingest or clear failed since the last successful clear
    \* main.py: main, run_search_mode and the __main__ block
    main_pc,         \* "idle" | "start" | "open" | "ask" | "load" | "chunk" | "analyze" | "ingest" | "prompt" | "exited"
    kb_file,         \* the knowledge file data/knowledge.txt
    db_detected,     \* what check_database_exists() returned at start
    db_file,         \* chroma_db/chroma.sqlite3 exists
    db_records,      \* the records of the collection
    build,           \* history: how the load, chunk and ingest steps of the build ended
    m_sections,      \* txt_texts
    m_chunks,        \* semantic_chunks
    m_metadata,      \* semantic_metadata
    line,            \* the last line read by input() in the query loop
    events,          \* the calls and reports of the last iteration of the query loop, in order
    main_results,    \* what main() returned to the __main__ block: "unset" | "True" | "None"
    exit_how,        \* "running" | "quit" | "declined" | "build_failed" | "uncaught"
    exit_code        \* the exit code of the process, -1 while it runs

loadVars  == <<file, load_pc, load_ret>>
fbVars    == <<fb_text, fb_pc, fb_chunks, fb_metadata>>
chunkVars == <<texts, chunk_pc, i, all_chunks, chunk_metadata, split_outcomes>>
storeVars == <<vector_store, call, passed, clean>>
mainVars  == <<main_pc, kb_file, db_detected, db_file, db_records, build, m_sections,
               m_chunks, m_metadata, line, events, main_results, exit_how, exit_code>>
vars      == <<loadVars, fbVars, chunkVars, storeVars, mainVars>>

-----------------------------------------------------------------------------
(* Bounds of the model *)

MaxFileLen == 6      \* longest knowledge file content, in characters
MaxTextLen == 6      \* longest section text given to the fallback splitter
MaxSections == 2     \* longest list of sections given to apply_semantic_chunking
MaxChunks == 2       \* longest chunk list (and metadata list) of one ingest
MaxStore == 3        \* most chunks passed to, and most records kept by, the store
MaxK == 2            \* largest k of a search

-----------------------------------------------------------------------------
(* Text: Python str operations used by the code *)

NL == "\n"
SP == " "
TAB == "\t"

\* The characters str.strip() with no argument removes (str.isspace), within the alphabet.
Whitespace == {SP, NL, TAB}

\* The characters texts are built from.
Alphabet == {"a", "b", SP, NL}

RECURSIVE TextsOfLen(_)
TextsOfLen(n) ==
    IF n = 0 THEN {<<>>}
    ELSE {<<c>> \o t : c \in Alphabet, t \in TextsOfLen(n - 1)}

TextsUpTo(n) == UNION {TextsOfLen(m) : m \in 0..n}

\* s.find('\n\n'): the least 1-based position of the separator, 0 when there is none.
FindSep(s) ==
    LET hits == {p \in 1..(Len(s) - 1) : s[p] = NL /\ s[p + 1] = NL}
    IN  IF hits = {} THEN 0 ELSE CHOOSE p \in hits : \A q \in hits : p <= q

\* s.split('\n\n'): left to right, non-overlapping; always at least one piece.
RECURSIVE Split(_)
Split(s) ==
    LET p == FindSep(s)
    IN  IF p = 0 THEN <<s>>
        ELSE <<SubSeq(s, 1, p - 1)>> \o Split(SubSeq(s, p + 2, Len(s)))

\* s.lstrip(), s.rstrip(), s.strip()
RECURSIVE LStrip(_)
LStrip(s) == IF s # <<>> /\ Head(s) \in Whitespace THEN LStrip(Tail(s)) ELSE s
RECURSIVE RStrip(_)
RStrip(s) ==
    IF s # <<>> /\ s[Len(s)] \in Whitespace THEN RStrip(SubSeq(s, 1, Len(s) - 1)) ELSE s
Strip(s) == RStrip(LStrip(s))

\* [piece.strip() for piece in pieces if piece.strip()]
RECURSIVE StrippedNonEmpty(_)
StrippedNonEmpty(pieces) ==
    IF pieces = <<>> THEN <<>>
    ELSE LET p == Strip(Head(pieces))
         IN  (IF p # <<>> THEN <<p>> ELSE <<>>) \o StrippedNonEmpty(Tail(pieces))

-----------------------------------------------------------------------------
(* What the claims say about texts, stated on positions of the input *)

HasBlankLine(s) == \E p \in 1..(Len(s) - 1) : s[p] = NL /\ s[p + 1] = NL
IsTrimmed(s) == s # <<>> /\ s[1] \notin Whitespace /\ s[Len(s)] \notin Whitespace
StartsWithAt(t, pos, s) ==
    /\ pos + Len(s) - 1 <= Len(t)
    /\ \A q \in 1..Len(s) : t[pos + q - 1] = s[q]
\* The first position >= pos of t that holds no whitespace, Len(t) + 1 when there is none.
NextInk(t, pos) ==
    LET ink == {p \in pos..Len(t) : t[p] \notin Whitespace}
    IN  IF ink = {} THEN Len(t) + 1 ELSE CHOOSE p \in ink : \A q \in ink : p <= q

\* t, from position pos on, is: whitespace, pieces[1], whitespace holding a blank line,
\* pieces[2], ..., the last piece, whitespace; `first` says that no piece came before
\* (so the whitespace before the next piece needs no blank line in it).
RECURSIVE Rebuilds(_, _, _, _)
Rebuilds(t, pos, pieces, first) ==
    LET b == NextInk(t, pos)
    IN  IF pieces = <<>> THEN b = Len(t) + 1
        ELSE /\ b <= Len(t)
             /\ first \/ HasBlankLine(SubSeq(t, pos, b - 1))
             /\ StartsWithAt(t, b, Head(pieces))
             /\ Rebuilds(t, b + Len(Head(pieces)), Tail(pieces), FALSE)

\* pieces are the blank-line-delimited parts of t, each trimmed, none empty, in order.
IsPartition(t, pieces) ==
    /\ \A j \in 1..Len(pieces) : IsTrimmed(pieces[j]) /\ ~HasBlankLine(pieces[j])
    /\ Rebuilds(t, 1, pieces, TRUE)

-----------------------------------------------------------------------------
(* rag_helper.load_and_preprocess_documents *)

Missing    == [kind |-> "missing"]       \* open() raises FileNotFoundError
Unreadable == [kind |-> "unreadable"]    \* open() or read() raises another exception
Readable(content) == [kind |-> "text", content |-> content]

Files == {Missing, Unreadable} \cup {Readable(c) : c \in TextsUpTo(MaxFileLen)}

\* line 223 without its `if section.strip()`
SectionsKeepingEmpty(content) == [j \in 1..Len(Split(content)) |-> Strip(Split(content)[j])]
\* line 223: [section.strip() for section in content.split('\n\n') if section.strip()]
Sections(content) == StrippedNonEmpty(Split(content))

\* lines 218-233: the value returned for a file
load_and_preprocess_documents(f) ==
    IF f.kind = "text" THEN Sections(f.content) ELSE <<>>

IdleLoad  == file = Missing /\ load_pc = "idle" /\ load_ret = <<>>
IdleFb    == fb_text = <<>> /\ fb_pc = "idle" /\ fb_chunks = <<>> /\ fb_metadata = <<>>
IdleChunk ==
    /\ texts = <<>> /\ chunk_pc = "idle" /\ i = 0
    /\ all_chunks = <<>> /\ chunk_metadata = <<>> /\ split_outcomes = <<>>
IdleStore ==
    /\ vector_store = <<>> /\ call = [op |-> "none"] /\ passed = 0 /\ clean = TRUE
NoBuild == [load |-> "none", chunk |-> "none", ingest |-> "none"]
IdleMain ==
    /\ main_pc = "idle" /\ kb_file = [kind |-> "missing"] /\ db_detected = FALSE
    /\ db_file = FALSE /\ db_records = <<>> /\ build = NoBuild
    /\ m_sections = <<>> /\ m_chunks = <<>> /\ m_metadata = <<>>
    /\ line = <<>> /\ events = <<>>
    /\ main_results = "unset" /\ exit_how = "running" /\ exit_code = -1

LoadInit ==
    /\ file \in Files
    /\ load_pc = "idle"
    /\ load_ret = <<>>
    /\ IdleFb /\ IdleChunk /\ IdleStore /\ IdleMain

Load ==
    /\ load_pc = "idle"
    /\ load_ret' = load_and_preprocess_documents(file)
    /\ load_pc' = "done"
    /\ UNCHANGED <<file, fbVars, chunkVars, storeVars, mainVars>>

LoadNext == Load
LoadSpec == LoadInit /\ [][LoadNext]_vars

\* C10: load_and_preprocess_documents returns, in file order, the blank-line-delimited
\* sections of the knowledge file, each trimmed and none empty; for a missing or
\* unreadable file it returns the empty list (and raises nothing).
C10_LoadReturnsSections ==
    load_pc = "done" =>
        IF file.kind = "text"
        THEN IsPartition(file.content, load_ret)
        ELSE load_ret = <<>>

\* The scenario of the specification: "A1.\n\nA2." with A1. written a and A2. written b.
C10_Witness_TwoSections ==
    /\ load_pc = "done"
    /\ file = Readable(<<"a", NL, NL, "b">>)
    /\ load_ret = << <<"a">>, <<"b">> >>

-----------------------------------------------------------------------------
(* pure_semantic_chunker.apply_semantic_chunking *)

\* lines 51-57 and 66-72: the metadata record appended with a chunk
Metadata(source_text, chunk_index, chunk_size) ==
    [source_text |-> source_text, chunk_index |-> chunk_index,
     start_index |-> "None", end_index |-> "None", chunk_size |-> chunk_size]

\* lines 62-65: what the except branch appends to all_chunks for one text
RECURSIVE FallbackChunksOf(_)
FallbackChunksOf(pieces) ==
    IF pieces = <<>> THEN <<>>
    ELSE (IF Strip(Head(pieces)) # <<>> THEN <<Strip(Head(pieces))>> ELSE <<>>)
         \o FallbackChunksOf(Tail(pieces))
\* lines 62-65 appending chunk instead of chunk.strip()
RECURSIVE FallbackChunksUntrimmedOf(_)
FallbackChunksUntrimmedOf(pieces) ==
    IF pieces = <<>> THEN <<>>
    ELSE (IF Strip(Head(pieces)) # <<>> THEN <<Head(pieces)>> ELSE <<>>)
         \o FallbackChunksUntrimmedOf(Tail(pieces))
FallbackChunksUntrimmed(text) == FallbackChunksUntrimmedOf(Split(text))
FallbackChunks(text) == FallbackChunksOf(Split(text))

\* lines 62-72: what the except branch appends to chunk_metadata for text number n;
\* j counts the pieces of the split, the blank ones included (enumerate).
RECURSIVE FallbackMetadataOf(_, _, _)
FallbackMetadataOf(n, pieces, j) ==
    IF pieces = <<>> THEN <<>>
    ELSE (IF Strip(Head(pieces)) # <<>>
          THEN <<Metadata(n, j, Len(Strip(Head(pieces))))>>
          ELSE <<>>)
         \o FallbackMetadataOf(n, Tail(pieces), j + 1)
FallbackMetadata(n, text) == FallbackMetadataOf(n, Split(text), 0)

FbInit ==
    /\ fb_text \in TextsUpTo(MaxTextLen)
    /\ fb_pc = "idle"
    /\ fb_chunks = <<>>
    /\ fb_metadata = <<>>
    /\ IdleLoad /\ IdleChunk /\ IdleStore /\ IdleMain

\* The except branch run on one text, from empty lists.
Fallback ==
    /\ fb_pc = "idle"
    /\ fb_chunks' = FallbackChunks(fb_text)
    /\ fb_metadata' = FallbackMetadata(0, fb_text)
    /\ fb_pc' = "done"
    /\ UNCHANGED <<fb_text, loadVars, chunkVars, storeVars, mainVars>>

FbNext == Fallback
FallbackSpec == FbInit /\ [][FbNext]_vars

\* C9: the chunks of the fallback blank-line splitter, in order and re-joined with the
\* original blank-line separators, rebuild the input up to the whitespace trimmed from
\* each piece: nothing but whitespace is lost, nothing is duplicated or reordered.
C9_FallbackIsPartition ==
    fb_pc = "done" => IsPartition(fb_text, fb_chunks)

\* " a\n\n\nb": two paragraphs, whitespace trimmed from both.
C9_Witness_TwoParagraphs ==
    /\ fb_pc = "done"
    /\ fb_text = <<SP, "a", NL, NL, NL, "b">>
    /\ fb_chunks = << <<"a">>, <<"b">> >>

-----------------------------------------------------------------------------
(* apply_semantic_chunking on a list of texts, one loop iteration per step *)

\* The texts of the batches: one paragraph, two paragraphs, two paragraphs with blank
\* pieces and outer whitespace, and a text that is all whitespace.
SampleTexts ==
    { <<"a">>,
      <<"a", NL, NL, "b">>,
      <<SP, "a", NL, NL, NL, NL, "b", SP>>,
      <<NL, NL>> }

RECURSIVE ListsOfLen(_, _)
ListsOfLen(S, n) ==
    IF n = 0 THEN {<<>>}
    ELSE {<<x>> \o l : x \in S, l \in ListsOfLen(S, n - 1)}
ListsUpTo(S, n) == UNION {ListsOfLen(S, m) : m \in 0..n}

\* line 44: what chunker.split_text(text) can return. The chunker is an external
\* collaborator: it returns no chunk, the whole text, or the text cut in two, as
\* plain strings or as objects with a page_content.
StrChunk(s) == [kind |-> "str", value |-> s]
DocChunk(s) == [kind |-> "doc", page_content |-> s]
Cuts(text) ==
    {<<>>, <<text>>}
    \cup {<<SubSeq(text, 1, p), SubSeq(text, p + 1, Len(text))>> : p \in 1..(Len(text) - 1)}
ChunkerOutputs(text) ==
    {[j \in 1..Len(c) |-> StrChunk(c[j])] : c \in Cuts(text)}
    \cup {[j \in 1..Len(c) |-> DocChunk(c[j])] : c \in Cuts(text)}

\* line 49: chunk.page_content if hasattr(chunk, 'page_content') else chunk
ChunkContent(chunk) == IF chunk.kind = "doc" THEN chunk.page_content ELSE chunk.value

\* lines 47-50: what the try branch appends to all_chunks
SemanticChunks(chunks) == [j \in 1..Len(chunks) |-> ChunkContent(chunks[j])]
\* lines 47-57: what the try branch appends to chunk_metadata for text number n
SemanticMetadataSizedByText(n, text, chunks) ==
    [j \in 1..Len(chunks) |-> Metadata(n, j - 1, Len(text))]
SemanticMetadata(n, text, chunks) ==
    [j \in 1..Len(chunks) |-> Metadata(n, j - 1, Len(ChunkContent(chunks[j])))]

\* line 41: the loop goes on with the next text after the except branch;
\* AbortingBatch is a loop that ends at the first failure.
AbortingBatch(idx, n) == n
IndexAfterFallback(idx, n) == idx + 1

ChunkInit ==
    /\ texts \in ListsUpTo(SampleTexts, MaxSections)
    /\ chunk_pc = "loop"
    /\ i = 0
    /\ all_chunks = <<>>
    /\ chunk_metadata = <<>>
    /\ split_outcomes = <<>>
    /\ IdleLoad /\ IdleFb /\ IdleStore /\ IdleMain

\* lines 42-57: split_text returned
SemanticSection ==
    /\ chunk_pc = "loop"
    /\ i < Len(texts)
    /\ \E chunks \in ChunkerOutputs(texts[i + 1]) :
        /\ all_chunks' = all_chunks \o SemanticChunks(chunks)
        /\ chunk_metadata' = chunk_metadata \o SemanticMetadata(i, texts[i + 1], chunks)
        /\ split_outcomes' = Append(split_outcomes, [raised |-> FALSE, chunks |-> chunks])
    /\ i' = i + 1
    /\ UNCHANGED <<texts, chunk_pc, loadVars, fbVars, storeVars, mainVars>>

\* lines 42-44, 59-72: split_text raised
FallbackSection ==
    /\ chunk_pc = "loop"
    /\ i < Len(texts)
    /\ all_chunks' = all_chunks \o FallbackChunks(texts[i + 1])
    /\ chunk_metadata' = chunk_metadata \o FallbackMetadata(i, texts[i + 1])
    /\ split_outcomes' = Append(split_outcomes, [raised |-> TRUE, chunks |-> <<>>])
    /\ i' = IndexAfterFallback(i, Len(texts))
    /\ UNCHANGED <<texts, chunk_pc, loadVars, fbVars, storeVars, mainVars>>

\* lines 74-75
ReturnChunks ==
    /\ chunk_pc = "loop"
    /\ i = Len(texts)
    /\ chunk_pc' = "done"
    /\ UNCHANGED <<texts, i, all_chunks, chunk_metadata, split_outcomes,
                   loadVars, fbVars, storeVars, mainVars>>

ChunkNext == SemanticSection \/ FallbackSection \/ ReturnChunks
ChunkSpec == ChunkInit /\ [][ChunkNext]_vars

\* The chunk the metadata record m points at: chunk number chunk_index of what the
\* chunker returned for text number source_text, or, where the chunker raised, the
\* trimmed piece number chunk_index of that text.
ChunkOfMetadata(m) ==
    LET o == split_outcomes[m.source_text + 1]
        t == texts[m.source_text + 1]
    IN  IF o.raised THEN Strip(Split(t)[m.chunk_index + 1])
        ELSE ChunkContent(o.chunks[m.chunk_index + 1])

\* C7: for every list of sections and every outcome of the chunker per section,
\* all_chunks and chunk_metadata have equal length, the k-th metadata record belongs to
\* the k-th chunk, and its chunk_size is the character length of that chunk, on the
\* semantic path and on the fallback path.
C7_MetadataPairsWithChunks ==
    /\ Len(chunk_metadata) = Len(all_chunks)
    /\ \A k \in 1..Len(chunk_metadata) :
        /\ k <= Len(all_chunks)
        /\ chunk_metadata[k].chunk_size = Len(all_chunks[k])
        /\ chunk_metadata[k].source_text < Len(split_outcomes)
        /\ ChunkOfMetadata(chunk_metadata[k]) = all_chunks[k]

\* A returned batch with a chunk of the fallback path and a chunk of the semantic path.
C7_Witness_BothPaths ==
    /\ chunk_pc = "done"
    /\ Len(split_outcomes) = 2
    /\ split_outcomes[1].raised /\ ~split_outcomes[2].raised
    /\ \E k \in 1..Len(chunk_metadata) : chunk_metadata[k].source_text = 0
    /\ \E k \in 1..Len(chunk_metadata) :
        chunk_metadata[k].source_text = 1 /\ chunk_metadata[k].chunk_index = 1

\* The positions of t where a paragraph starts: a non-whitespace character with no
\* non-whitespace character before it, or with a blank line between the last one and it.
ParagraphStarts(t) ==
    {p \in 1..Len(t) :
        /\ t[p] \notin Whitespace
        /\ LET before == {q \in 1..(p - 1) : t[q] \notin Whitespace}
           IN  \/ before = {}
               \/ LET last == CHOOSE q \in before : \A r \in before : r <= q
                  IN  HasBlankLine(SubSeq(t, last + 1, p - 1))}

\* chunks is, text by text in order, what the chunker returned for the text, or, where
\* the chunker raised, the blank-line-separated paragraphs of the text and nothing else.
RECURSIVE BatchIs(_, _, _)
BatchIs(ts, outs, chunks) ==
    IF ts = <<>> THEN chunks = <<>>
    ELSE LET n == IF Head(outs).raised
                  THEN Cardinality(ParagraphStarts(Head(ts)))
                  ELSE Len(Head(outs).chunks)
         IN  /\ n <= Len(chunks)
             /\ IF Head(outs).raised
                THEN IsPartition(Head(ts), SubSeq(chunks, 1, n))
                ELSE \A j \in 1..n : chunks[j] = ChunkContent(Head(outs).chunks[j])
             /\ BatchIs(Tail(ts), Tail(outs), SubSeq(chunks, n + 1, Len(chunks)))

-----------------------------------------------------------------------------
(* embedding_manager.EmbeddingManager *)

\* line 19: the default embedding model identifier
EmbeddingModel == "text-embedding-3-small"

\* line 133: page_content[:100]
PrefixLen == 100

\* A chunk content of the store is written as its runs of equal characters, each run
\* a character and a count >= 1, adjacent runs of different characters: a hundred a's
\* and an x is <<Run("a", 100), Run("x", 1)>>. Two contents are the same string
\* exactly when their runs are equal.
Run(ch, n) == [ch |-> ch, n |-> n]

\* s[:n]
RECURSIVE Take(_, _)
Take(s, n) ==
    IF s = <<>> \/ n <= 0 THEN <<>>
    ELSE IF Head(s).n >= n THEN <<Run(Head(s).ch, n)>>
    ELSE <<Head(s)>> \o Take(Tail(s), n - Head(s).n)

\* Chunk contents: two that agree on their first 100 characters and differ at the
\* 101st, and one that agrees with them on 99 characters only.
Contents ==
    { <<Run("a", PrefixLen), Run("x", 1)>>,
      <<Run("a", PrefixLen), Run("y", 1)>>,
      <<Run("a", PrefixLen - 1), Run("b", 1)>> }

\* A metadata dictionary as the chunker makes it (the argument of an ingest).
InputMeta == Metadata(0, 0, PrefixLen + 1)
MetadataLists == {[j \in 1..n |-> InputMeta] : n \in 0..MaxChunks}

\* lines 80-82: meta.copy() with chunk_id and embedding_model set
DocMetadata(meta, chunk_id) ==
    [source_text |-> meta.source_text, chunk_index |-> meta.chunk_index,
     start_index |-> meta.start_index, end_index |-> meta.end_index,
     chunk_size |-> meta.chunk_size,
     chunk_id |-> chunk_id, embedding_model |-> EmbeddingModel]

Min(a, b) == IF a <= b THEN a ELSE b
Max(a, b) == IF a >= b THEN a ELSE b

\* lines 77-89 where every metadata record gets a document, the chunk list being padded
DocumentsPerMetadata(chunks, metadata) ==
    [j \in 1..Max(Len(chunks), Len(metadata)) |->
        [page_content |-> IF j <= Len(chunks) THEN chunks[j] ELSE <<Run("a", 1)>>,
         metadata |-> DocMetadata(IF j <= Len(metadata) THEN metadata[j] ELSE InputMeta,
                                  j - 1)]]
\* lines 77-89: one Document per pair of zip(chunks, metadata), chunk_id counting from 0
Documents(chunks, metadata) ==
    [j \in 1..Min(Len(chunks), Len(metadata)) |->
        [page_content |-> chunks[j], metadata |-> DocMetadata(metadata[j], j - 1)]]

\* line 163: collection.count()
Count == Len(vector_store)

\* lines 165-170
Stats(count) ==
    [total_chunks |-> count, embedding_model |-> EmbeddingModel,
     collection_name |-> "document_chunks", persist_directory |-> "chroma_db"]

StoreInit ==
    /\ vector_store = <<>>
    /\ call = [op |-> "none"]
    /\ passed = 0
    /\ clean = TRUE
    /\ IdleLoad /\ IdleFb /\ IdleChunk /\ IdleMain

\* lines 73-98: create_embeddings_from_chunks, add_documents and persist raise nothing
IngestOk ==
    /\ call.op = "none"
    /\ \E chunks \in ListsUpTo(Contents, MaxChunks), metadata \in MetadataLists :
        /\ Len(vector_store) + Len(chunks) <= MaxStore
        /\ passed + Len(chunks) <= MaxStore
        /\ vector_store' = vector_store \o Documents(chunks, metadata)
        /\ call' = [op |-> "ingest", chunks |-> chunks, metadata |-> metadata,
                    before |-> vector_store, raised |-> FALSE, ret |-> TRUE]
        /\ passed' = passed + Len(chunks)
    /\ UNCHANGED <<clean, loadVars, fbVars, chunkVars, mainVars>>

\* lines 100-102 re-raising instead of returning False
IngestExceptReraising == [propagates |-> TRUE, ret |-> FALSE]
\* lines 100-102: `except Exception` prints and returns False
IngestExcept == [propagates |-> FALSE, ret |-> FALSE]

\* lines 150-152 re-raising instead of returning []
SearchExceptReraising == [propagates |-> TRUE, ret |-> <<>>]
\* lines 150-152: `except Exception` prints and returns []
SearchExcept == [propagates |-> FALSE, ret |-> <<>>]

\* lines 73-95, 100-102: add_documents or persist raises after `written` of the
\* documents reached the collection (the store is not transactional)
IngestRaises ==
    /\ call.op = "none"
    /\ \E chunks \in ListsUpTo(Contents, MaxChunks), metadata \in MetadataLists :
        \E written \in 0..Len(Documents(chunks, metadata)) :
            /\ Len(vector_store) + Len(chunks) <= MaxStore
            /\ vector_store' = vector_store \o SubSeq(Documents(chunks, metadata), 1, written)
            /\ call' = [op |-> "ingest", chunks |-> chunks, metadata |-> metadata,
                        before |-> vector_store, raised |-> TRUE,
                        propagates |-> IngestExcept.propagates,
                        ret |-> IngestExcept.ret]
    /\ clean' = FALSE
    /\ UNCHANGED <<passed, loadVars, fbVars, chunkVars, mainVars>>

\* Similarity scores and thresholds, in hundredths: 0.9 is the threshold the query
\* loop uses (a score of 0.9 passes it, one of 0.8 does not), 1.1 one no score reaches.
Scores == {80, 90}
Thresholds == {90, 110}

Monotone(sc) ==
    \/ \A a \in 1..(Len(sc) - 1) : sc[a] >= sc[a + 1]
    \/ \A a \in 1..(Len(sc) - 1) : sc[a] <= sc[a + 1]

\* lines 121-124: what similarity_search_with_score(query, k) can return: min(k, count)
\* distinct records of the collection, each with a score, ordered by score. Which
\* records and which scores depends on the query and the embedding, so any are taken.
NearestLists(store, k) ==
    LET m == Min(k, Len(store))
        picks == {l \in ListsOfLen(1..Len(store), m) :
                    \A a, b \in 1..m : a # b => l[a] # l[b]}
        scored == {sc \in ListsOfLen(Scores, m) : Monotone(sc)}
    IN  {[j \in 1..m |-> [doc |-> store[l[j]], score |-> sc[j]]] : l \in picks, sc \in scored}

\* line 133 comparing whole contents
ContentWhole(page_content) == page_content
\* line 133 sliced one character short
ContentPreviewShort(page_content) == Take(page_content, PrefixLen - 1)
\* line 133: doc.page_content[:100]
ContentPreview(page_content) == Take(page_content, PrefixLen)

\* line 131 with the comparison dropped
PassesAlways(score, similarity_threshold) == TRUE
\* line 131: score >= similarity_threshold
PassesThreshold(score, similarity_threshold) == score >= similarity_threshold

\* lines 138-142
Result(doc, score) ==
    [content |-> doc.page_content, metadata |-> doc.metadata, similarity_score |-> score]

\* lines 130-145: the loop over results, from the state (seen_contents, filtered_results)
RECURSIVE FilterLoop(_, _, _, _)
FilterLoop(results, similarity_threshold, seen_contents, filtered_results) ==
    IF results = <<>> THEN filtered_results
    ELSE LET doc == Head(results).doc
             score == Head(results).score
             content_preview == ContentPreview(doc.page_content)
         IN  IF PassesThreshold(score, similarity_threshold)
                /\ content_preview \notin seen_contents
             THEN FilterLoop(Tail(results), similarity_threshold,
                             seen_contents \cup {content_preview},
                             Append(filtered_results, Result(doc, score)))
             ELSE FilterLoop(Tail(results), similarity_threshold,
                             seen_contents, filtered_results)

\* lines 127-148
FilteredResults(results, similarity_threshold) ==
    FilterLoop(results, similarity_threshold, {}, <<>>)

\* lines 119-148: search_similar_chunks, the store answers
SearchOk ==
    /\ call.op = "none"
    /\ \E k \in 1..MaxK, similarity_threshold \in Thresholds :
        \E results \in NearestLists(vector_store, k) :
            call' = [op |-> "search", k |-> k,
                     similarity_threshold |-> similarity_threshold,
                     results |-> results, raised |-> FALSE,
                     ret |-> FilteredResults(results, similarity_threshold)]
    /\ UNCHANGED <<vector_store, passed, clean, loadVars, fbVars, chunkVars, mainVars>>

\* lines 119-124, 150-152: the embedding service or the store raises
SearchRaises ==
    /\ call.op = "none"
    /\ \E k \in 1..MaxK, similarity_threshold \in Thresholds :
        call' = [op |-> "search", k |-> k,
                 similarity_threshold |-> similarity_threshold,
                 results |-> <<>>, raised |-> TRUE,
                 propagates |-> SearchExcept.propagates, ret |-> SearchExcept.ret]
    /\ UNCHANGED <<vector_store, passed, clean, loadVars, fbVars, chunkVars, mainVars>>

\* lines 161-172: get_database_stats
GetStats ==
    /\ call.op = "none"
    /\ call' = [op |-> "stats", raised |-> FALSE, ret |-> Stats(Count)]
    /\ UNCHANGED <<vector_store, passed, clean, loadVars, fbVars, chunkVars, mainVars>>

\* lines 161-163, 174-176: collection.count() raises, the empty dictionary is returned
GetStatsRaises ==
    /\ call.op = "none"
    /\ call' = [op |-> "stats", raised |-> TRUE, ret |-> <<>>]
    /\ UNCHANGED <<vector_store, passed, clean, loadVars, fbVars, chunkVars, mainVars>>

\* lines 185-193: clear_database; the collection is deleted and a new, empty one opened
ClearOk ==
    /\ call.op = "none"
    /\ vector_store' = <<>>
    /\ call' = [op |-> "clear", before |-> vector_store, raised |-> FALSE, ret |-> TRUE]
    /\ passed' = 0
    /\ clean' = TRUE
    /\ UNCHANGED <<loadVars, fbVars, chunkVars, mainVars>>

\* lines 185-190, 195-197: delete() raises (nothing deleted), or the reinitialisation
\* raises after the records were deleted
ClearRaises ==
    /\ call.op = "none"
    /\ \E deleted \in BOOLEAN :
        vector_store' = IF deleted THEN <<>> ELSE vector_store
    /\ call' = [op |-> "clear", before |-> vector_store, raised |-> TRUE, ret |-> FALSE]
    /\ clean' = FALSE
    /\ UNCHANGED <<passed, loadVars, fbVars, chunkVars, mainVars>>

\* The caller has the returned value; the manager is ready for the next call.
Return ==
    /\ call.op # "none"
    /\ call' = [op |-> "none"]
    /\ UNCHANGED <<vector_store, passed, clean, loadVars, fbVars, chunkVars, mainVars>>

StoreNext ==
    \/ IngestOk
    \/ IngestRaises
    \/ SearchOk
    \/ SearchRaises
    \/ GetStats
    \/ GetStatsRaises
    \/ ClearOk
    \/ ClearRaises
    \/ Return
StoreSpec == StoreInit /\ [][StoreNext]_vars

-----------------------------------------------------------------------------
(* Claims on search_similar_chunks *)

Returned(op) == call.op = op /\ ~call.raised

\* x and y have the same first 100 characters; a content shorter than 100 characters
\* is compared whole.
\* x without its first m characters, for m no more than its first run.
DropOfFirstRun(x, m) ==
    IF Head(x).n = m THEN Tail(x) ELSE <<Run(Head(x).ch, Head(x).n - m)>> \o Tail(x)
\* x and y agree on their first n characters (both ending before is agreeing).
RECURSIVE AgreeUpTo(_, _, _)
AgreeUpTo(x, y, n) ==
    IF n = 0 THEN TRUE
    ELSE IF x = <<>> \/ y = <<>> THEN x = <<>> /\ y = <<>>
    ELSE /\ Head(x).ch = Head(y).ch
         /\ LET m == Min(n, Min(Head(x).n, Head(y).n))
            IN  AgreeUpTo(DropOfFirstRun(x, m), DropOfFirstRun(y, m), n - m)
SamePrefix(x, y) == AgreeUpTo(x, y, PrefixLen)

\* C1: search_similar_chunks never returns two results whose contents have the same
\* first 100 characters.
C1_NoTwoResultsSharePrefix ==
    call.op = "search" =>
        \A a, b \in 1..Len(call.ret) :
            a # b => ~SamePrefix(call.ret[a].content, call.ret[b].content)

\* Two candidates that pass the threshold agree on 100 characters and differ at the
\* 101st; one of them is returned.
C1_Witness_DuplicateDropped ==
    /\ Returned("search")
    /\ Len(call.results) = 2
    /\ call.results[1].doc.page_content # call.results[2].doc.page_content
    /\ SamePrefix(call.results[1].doc.page_content, call.results[2].doc.page_content)
    /\ \A j \in 1..2 : call.results[j].score >= call.similarity_threshold
    /\ Len(call.ret) = 1

\* C2: every result of search_similar_chunks has similarity_score >= the threshold,
\* and when every candidate of the nearest-neighbour query scores below the threshold
\* the result is the empty sequence, returned normally.
C2_ResultsReachThreshold ==
    call.op = "search" =>
        /\ \A a \in 1..Len(call.ret) :
            call.ret[a].similarity_score >= call.similarity_threshold
        /\ (\A j \in 1..Len(call.results) :
                call.results[j].score < call.similarity_threshold)
            => call.ret = <<>>

\* A search with candidates, all of them below the threshold, returns nothing.
C2_Witness_AllExcluded ==
    /\ Returned("search")
    /\ call.similarity_threshold = 110
    /\ Len(call.results) = 2
    /\ call.ret = <<>>

\* The candidates that are returned: those that pass the threshold and whose prefix
\* is not the prefix of an earlier candidate that passes the threshold.
Kept ==
    {j \in 1..Len(call.results) :
        /\ call.results[j].score >= call.similarity_threshold
        /\ \A h \in 1..(j - 1) :
            call.results[h].score >= call.similarity_threshold
            => ~SamePrefix(call.results[h].doc.page_content,
                           call.results[j].doc.page_content)}

\* The n-th member of the set of positions S, in increasing order.
Nth(S, n) == CHOOSE j \in S : Cardinality({h \in S : h <= j}) = n

\* C3: search_similar_chunks returns exactly the candidates of Kept, in the order the
\* store returned them, each with its content, metadata and score.
C3_ResultsAreKeptInOrder ==
    Returned("search") =>
        LET kept == Kept
        IN  /\ Len(call.ret) = Cardinality(kept)
            /\ \A n \in 1..Len(call.ret) :
                /\ n <= Cardinality(kept)
                /\ LET c == call.results[Nth(kept, n)]
                   IN  /\ call.ret[n].content = c.doc.page_content
                       /\ call.ret[n].metadata = c.doc.metadata
                       /\ call.ret[n].similarity_score = c.score

\* The second candidate repeats the prefix of the first and is dropped although its
\* content differs after character 100.
C3_Witness_FirstOccurrenceWins ==
    /\ Returned("search")
    /\ Len(call.results) = 2
    /\ call.results[1].doc.page_content = <<Run("a", PrefixLen), Run("y", 1)>>
    /\ call.results[2].doc.page_content = <<Run("a", PrefixLen), Run("x", 1)>>
    /\ call.similarity_threshold = 90
    /\ call.results[1].score = 90 /\ call.results[2].score = 90
    /\ Len(call.ret) = 1
    /\ call.ret[1].content = <<Run("a", PrefixLen), Run("y", 1)>>

-----------------------------------------------------------------------------
(* Claims on create_embeddings_from_chunks, clear_database and get_database_stats *)

\* C4: a call create_embeddings_from_chunks(chunks, metadata) that returns True has
\* persisted every chunk of chunks as one record, the record of chunk number j
\* (from 0) carrying chunk_id = j and the manager's embedding model, whatever the
\* lengths of chunks and metadata.
C4_EveryChunkPersisted ==
    (call.op = "ingest" /\ call.ret) =>
        /\ Len(vector_store) = Len(call.before) + Len(call.chunks)
        /\ \A j \in 1..Len(call.chunks) :
            LET record == vector_store[Len(call.before) + j]
            IN  /\ record.page_content = call.chunks[j]
                /\ record.metadata.chunk_id = j - 1
                /\ record.metadata.embedding_model = EmbeddingModel

\* C5: after successful ingests and clears, get_database_stats()['total_chunks'] is
\* the number of chunks passed to the successful ingests since the last successful
\* clear (0 right after a clear).
C5_StatsCountPassedChunks ==
    (Returned("stats") /\ clean) => call.ret.total_chunks = passed

C15_StoreFailuresAreCaught ==
    /\ (call.op = "search" /\ call.raised) => (~call.propagates /\ call.ret = <<>>)
    /\ (call.op = "ingest" /\ call.raised) => (~call.propagates /\ call.ret = FALSE)

\* An ingest whose store raised after one of two documents was written.
C15_Witness_IngestRaisedMidway ==
    /\ call.op = "ingest"
    /\ call.raised
    /\ Len(call.chunks) = 2
    /\ Len(vector_store) = Len(call.before) + 1
    /\ call.ret = FALSE

(***************************************************************************)
(* main.py: main, run_search_mode and the __main__ block; llm_manager.py   *)
(***************************************************************************)

\* str.lower() on the letters the input lines are made of
LowerOf == [Q |-> "q", U |-> "u", I |-> "i", T |-> "t", E |-> "e", X |-> "x",
            Y |-> "y", S |-> "s", N |-> "n"]
Lower(s) == [j \in 1..Len(s) |-> IF s[j] \in DOMAIN LowerOf THEN LowerOf[s[j]] ELSE s[j]]

\* A text as the runs of equal characters the store keeps its contents in.
RECURSIVE Runs(_)
Runs(text) ==
    IF text = <<>> THEN <<>>
    ELSE LET rest == Runs(Tail(text))
         IN  IF rest # <<>> /\ Head(rest).ch = Head(text)
             THEN <<Run(Head(text), Head(rest).n + 1)>> \o Tail(rest)
             ELSE <<Run(Head(text), 1)>> \o rest

\* data/knowledge.txt: absent, unreadable, one section, two sections, whitespace only
KbFiles ==
    { Missing, Unreadable, Readable(<<"a">>), Readable(<<"a", NL, NL, "b">>),
      Readable(<<NL, NL>>) }

\* The collection found at start when chroma_db/chroma.sqlite3 exists: empty, or made
\* by an earlier build.
PriorStores ==
    { <<>>,
      Documents(<<Runs(<<"a">>)>>, <<Metadata(0, 0, 1)>>),
      Documents(<<Runs(<<"a">>), Runs(<<"b">>)>>, <<Metadata(0, 0, 1), Metadata(1, 0, 1)>>) }

\* lines 104-107: exit(1) if not results; a return of main ends the process with 0
Truthy(v) == v = "True"
ExitCode(v) == IF Truthy(v) THEN 0 ELSE 1
\* the interpreter ends with 1 on an exception nobody caught
UncaughtExitCode == 1

MainInit ==
    /\ main_pc = "start"
    /\ kb_file \in KbFiles
    /\ \E found \in BOOLEAN, store \in PriorStores :
        /\ (~found) => store = <<>>
        /\ db_file = found
        /\ db_records = store
    /\ db_detected = FALSE
    /\ build = NoBuild
    /\ m_sections = <<>> /\ m_chunks = <<>> /\ m_metadata = <<>>
    /\ line = <<>> /\ events = <<>>
    /\ main_results = "unset" /\ exit_how = "running" /\ exit_code = -1
    /\ IdleLoad /\ IdleFb /\ IdleChunk /\ IdleStore

\* main returns v to the __main__ block, which ends the process (lines 104-107)
MainReturns(v, how) ==
    /\ main_pc' = "exited"
    /\ main_results' = v
    /\ exit_how' = how
    /\ exit_code' = ExitCode(v)

\* lines 8-10, 16: check_database_exists()
CheckDatabase ==
    /\ main_pc = "start"
    /\ db_detected' = db_file
    /\ main_pc' = IF db_file THEN "open" ELSE "ask"
    /\ UNCHANGED <<kb_file, db_file, db_records, build, m_sections, m_chunks, m_metadata,
                   line, events, main_results, exit_how, exit_code,
                   loadVars, fbVars, chunkVars, storeVars>>

\* lines 17-18: EmbeddingManager() and the query loop over the existing store
UseExisting ==
    /\ main_pc = "open"
    /\ main_pc' = "prompt"
    /\ UNCHANGED <<kb_file, db_detected, db_file, db_records, build, m_sections, m_chunks,
                   m_metadata, line, events, main_results, exit_how, exit_code,
                   loadVars, fbVars, chunkVars, storeVars>>

\* line 17: EmbeddingManager() raises outside any try
UseExistingRaises ==
    /\ main_pc = "open"
    /\ main_pc' = "exited"
    /\ exit_how' = "uncaught"
    /\ exit_code' = UncaughtExitCode
    /\ UNCHANGED <<kb_file, db_detected, db_file, db_records, build, m_sections, m_chunks,
                   m_metadata, line, events, main_results, loadVars, fbVars, chunkVars,
                   storeVars>>

\* line 20: the answers to "Build RAG database? (y/n)"
BuildAnswers ==
    { <<"y">>, <<"Y">>, <<SP, "Y", "E", "S", SP>>, <<"y", "e", "s">>,
      <<"n">>, <<>>, <<"y", "e">>, <<"N">> }
\* line 21: response not in ['y', 'yes'], the response stripped and lowered
Accepts(answer) == Lower(Strip(answer)) \in {<<"y">>, <<"y", "e", "s">>}

\* lines 20-21, 25: the user accepts the build
AcceptBuild ==
    /\ main_pc = "ask"
    /\ \E answer \in BuildAnswers : Accepts(answer)
    /\ main_pc' = "load"
    /\ UNCHANGED <<kb_file, db_detected, db_file, db_records, build, m_sections, m_chunks,
                   m_metadata, line, events, main_results, exit_how, exit_code,
                   loadVars, fbVars, chunkVars, storeVars>>

\* lines 20-23: the user declines the build: "Goodbye!" and return None
DeclineBuild ==
    /\ main_pc = "ask"
    /\ \E answer \in BuildAnswers : ~Accepts(answer)
    /\ MainReturns("None", "declined")
    /\ UNCHANGED <<kb_file, db_detected, db_file, db_records, build, m_sections, m_chunks,
                   m_metadata, line, events, loadVars, fbVars, chunkVars, storeVars>>

\* lines 44-46 of main.py: `except Exception` around the build prints and returns None
BuildFails(step) ==
    /\ build' = [build EXCEPT ![step] = "failed"]
    /\ MainReturns("None", "build_failed")

\* pure_semantic_chunker.py line 81: load_and_preprocess_documents() returns the
\* sections, or [] when the file is missing or unreadable (rag_helper.py 225-233)
BuildLoad ==
    /\ main_pc = "load"
    /\ m_sections' = load_and_preprocess_documents(kb_file)
    /\ build' = [build EXCEPT !.load = IF kb_file.kind = "text" THEN "ok" ELSE "failed"]
    /\ main_pc' = "chunk"
    /\ UNCHANGED <<kb_file, db_detected, db_file, db_records, m_chunks, m_metadata, line,
                   events, main_results, exit_how, exit_code,
                   loadVars, fbVars, chunkVars, storeVars>>

\* pure_semantic_chunker.py lines 41-75 on the texts from number n on: every text is
\* chunked by the chunker or, when split_text raises, by the paragraph fallback
RECURSIVE ApplyFrom(_, _)
ApplyFrom(ts, n) ==
    IF n >= Len(ts) THEN {[chunks |-> <<>>, metadata |-> <<>>]}
    ELSE LET text == ts[n + 1]
             here == {[chunks |-> FallbackChunks(text),
                       metadata |-> FallbackMetadata(n, text)]}
                     \cup {[chunks |-> SemanticChunks(c),
                            metadata |-> SemanticMetadata(n, text, c)] :
                           c \in ChunkerOutputs(text)}
         IN  {[chunks |-> h.chunks \o r.chunks, metadata |-> h.metadata \o r.metadata] :
              h \in here, r \in ApplyFrom(ts, n + 1)}
apply_semantic_chunking(ts) == ApplyFrom(ts, 0)

\* pure_semantic_chunker.py lines 84-87: the chunker is created and applied
BuildChunk ==
    /\ main_pc = "chunk"
    /\ \E out \in apply_semantic_chunking(m_sections) :
        /\ m_chunks' = out.chunks
        /\ m_metadata' = out.metadata
    /\ main_pc' = "analyze"
    /\ UNCHANGED <<kb_file, db_detected, db_file, db_records, build, m_sections, line,
                   events, main_results, exit_how, exit_code,
                   loadVars, fbVars, chunkVars, storeVars>>

\* pure_semantic_chunker.py line 84: create_semantic_chunker() raises
BuildChunkerRaises ==
    /\ main_pc = "chunk"
    /\ BuildFails("chunk")
    /\ UNCHANGED <<kb_file, db_detected, db_file, db_records, m_sections, m_chunks,
                   m_metadata, line, events, loadVars, fbVars, chunkVars, storeVars>>

\* rag_helper.py line 159: min(sizes) raises ValueError on an empty list
AnalyzeRaises(metadata) == metadata = <<>>

\* pure_semantic_chunker.py lines 90-110: analysis and saving succeed, main.py line 27
\* finds the dictionary with its 'semantic_chunks'
BuildAnalyze ==
    /\ main_pc = "analyze"
    /\ ~AnalyzeRaises(m_metadata)
    /\ build' = [build EXCEPT !.chunk = "ok"]
    /\ main_pc' = "ingest"
    /\ UNCHANGED <<kb_file, db_detected, db_file, db_records, m_sections, m_chunks,
                   m_metadata, line, events, main_results, exit_how, exit_code,
                   loadVars, fbVars, chunkVars, storeVars>>

\* pure_semantic_chunker.py lines 90-97: analyze_chunk_quality raises on no chunk, or
\* save_chunks_to_files raises writing its files
BuildAnalyzeRaises ==
    /\ main_pc = "analyze"
    /\ BuildFails("chunk")
    /\ UNCHANGED <<kb_file, db_detected, db_file, db_records, m_sections, m_chunks,
                   m_metadata, line, events, loadVars, fbVars, chunkVars, storeVars>>

\* main.py lines 38-43 entering the query loop whatever create_embeddings returned
AfterIngestAlwaysSearching(success) == "prompt"
\* main.py lines 38-43: `if not success: return None`, else run_search_mode
AfterIngest(success) == IF success THEN "prompt" ELSE "exited"

\* main.py lines 35-43: EmbeddingManager(), then create_embeddings_from_chunks returns
\* True (every document written) or False (embedding_manager.py 100-102, after
\* `written` documents reached the collection)
BuildIngest ==
    /\ main_pc = "ingest"
    /\ \E success \in BOOLEAN :
        LET documents == Documents([j \in 1..Len(m_chunks) |-> Runs(m_chunks[j])], m_metadata)
        IN  /\ \E written \in 0..Len(documents) :
                /\ success => written = Len(documents)
                /\ db_records' = db_records \o SubSeq(documents, 1, written)
            /\ main_pc' = AfterIngest(success)
            /\ IF AfterIngest(success) = "prompt"
               THEN /\ build' = [build EXCEPT !.ingest = IF success THEN "ok" ELSE "failed"]
                    /\ UNCHANGED <<main_results, exit_how, exit_code>>
               ELSE /\ build' = [build EXCEPT !.ingest = "failed"]
                    /\ main_results' = "None"
                    /\ exit_how' = "build_failed"
                    /\ exit_code' = ExitCode("None")
    /\ db_file' = TRUE
    /\ UNCHANGED <<kb_file, db_detected, m_sections, m_chunks, m_metadata, line, events,
                   loadVars, fbVars, chunkVars, storeVars>>

\* main.py line 35: EmbeddingManager() raises inside the try
BuildStoreRaises ==
    /\ main_pc = "ingest"
    /\ BuildFails("ingest")
    /\ UNCHANGED <<kb_file, db_detected, db_file, db_records, m_sections, m_chunks,
                   m_metadata, line, events, loadVars, fbVars, chunkVars, storeVars>>

\* llm_manager.py: a value a method returns is a list of strings or one string
ListValue(items) == [type |-> "list", items |-> items]
StrValue(value) == [type |-> "str", value |-> value]

\* str.split("\n")
RECURSIVE SplitLines(_)
SplitLines(s) ==
    IF \E j \in 1..Len(s) : s[j] = NL
    THEN LET p == CHOOSE j \in 1..Len(s) : s[j] = NL /\ \A m \in 1..(j - 1) : s[m] # NL
         IN  <<SubSeq(s, 1, p - 1)>> \o SplitLines(SubSeq(s, p + 1, Len(s)))
    ELSE <<s>>

\* What a for loop or a join sees of a value: the items of a list, the characters of
\* a string.
Iterate(v) ==
    IF v.type = "list" THEN v.items ELSE [j \in 1..Len(v.value) |-> <<v.value[j]>>]

\* "\n".join(strs)
RECURSIVE JoinLines(_)
JoinLines(strs) ==
    IF strs = <<>> THEN <<>>
    ELSE IF Len(strs) = 1 THEN strs[1]
    ELSE strs[1] \o <<NL>> \o JoinLines(Tail(strs))

\* llm_manager.py line 50: the literal of the f-string, "#" for its cross mark
SimilarQuestionErrorPrefix ==
    <<"#", " ", "E", "r", "r", "o", "r", " ", "g", "e", "n", "e", "r", "a", "t", "i",
      "n", "g", " ", "s", "i", "m", "i", "l", "a", "r", " ", "q", "u", "e", "s", "t",
      "i", "o", "n", ":", " ">>
\* llm_manager.py line 89: the literal of the f-string, "#" for its cross mark
ResponseErrorPrefix ==
    <<"#", " ", "E", "r", "r", "o", "r", " ", "g", "e", "n", "e", "r", "a", "t", "i",
      "n", "g", " ", "r", "e", "s", "p", "o", "n", "s", "e", ":", " ">>

\* str(e) of the exceptions the chat service raises
ServiceErrors == {<<>>, <<"t", "o">>}
\* response.choices[0].message.content of the expansion request
ExpansionContents == {<<>>, <<"a">>, <<"a", NL, "b">>, <<"a", NL, NL, "b">>}
\* response.choices[0].message.content of the answer request
Answers == {<<"o", "k">>}

\* llm_manager.py 49-50: `except Exception as e` returns the formatted string itself
SimilarQuestionError(e) == StrValue(SimilarQuestionErrorPrefix \o e)

\* llm_manager.py 13-50: generate_similar_question(query), with how the service ended
generate_similar_question ==
    {[failed |-> FALSE, ret |-> ListValue(SplitLines(content))] :
        content \in ExpansionContents}
    \cup {[failed |-> TRUE, ret |-> SimilarQuestionError(e)] : e \in ServiceErrors}

\* llm_manager.py 52-89: generate_response(question, relevant_chunks)
generate_response ==
    {[failed |-> FALSE, ret |-> answer] : answer \in Answers}
    \cup {[failed |-> TRUE, ret |-> ResponseErrorPrefix \o e] : e \in ServiceErrors}

\* main.py line 68: user_question + "\n" + "\n".join(similar_questions)
QueryWith(user_question, similar_questions) ==
    user_question \o <<NL>> \o JoinLines(Iterate(similar_questions))

\* main.py lines 74-75: k=5, similarity_threshold=0.9 (in hundredths)
SearchK == 5
SearchThreshold == 90

\* main.py 72-76 with embedding_manager.py 104-152: the results of the search
search_similar_chunks ==
    {FilteredResults(found, SearchThreshold) : found \in NearestLists(db_records, SearchK)}
    \cup {SearchExcept.ret}

\* The lines the operator types at the prompt.
InputLines ==
    { <<>>, <<SP>>, <<"q">>, <<"Q">>, <<SP, "q", SP>>, <<"q", "u", "i", "t">>,
      <<"Q", "u", "I", "T">>, <<"e", "x", "i", "t">>, <<SP, "E", "X", "I", "T">>,
      <<"q", "q">>, <<"a">>, <<"a", SP, "b", SP>>, <<"e", "x", "i", "t", "s">> }

\* main.py line 55 matching the keywords as typed
IsQuitCaseSensitive(user_question) ==
    user_question \in {<<"q", "u", "i", "t">>, <<"e", "x", "i", "t">>, <<"q">>}
\* main.py line 55: user_question.lower() in ['quit', 'exit', 'q']
IsQuit(user_question) ==
    Lower(user_question) \in {<<"q", "u", "i", "t">>, <<"e", "x", "i", "t">>, <<"q">>}

\* main.py lines 53-57, 102, then line 18 or 43 and lines 104-107: a quit keyword ends
\* the loop, run_search_mode returns True and main returns it
Quit ==
    /\ main_pc = "prompt"
    /\ \E typed \in InputLines :
        /\ IsQuit(Strip(typed))
        /\ line' = typed
    /\ events' = <<>>
    /\ MainReturns("True", "quit")
    /\ UNCHANGED <<kb_file, db_detected, db_file, db_records, build, m_sections, m_chunks,
                   m_metadata, loadVars, fbVars, chunkVars, storeVars>>

\* main.py lines 53-60: `if not user_question: continue`
EmptyInput ==
    /\ main_pc = "prompt"
    /\ \E typed \in InputLines :
        /\ ~IsQuit(Strip(typed))
        /\ Strip(typed) = <<>>
        /\ line' = typed
    /\ events' = <<>>
    /\ UNCHANGED <<main_pc, kb_file, db_detected, db_file, db_records, build, m_sections,
                   m_chunks, m_metadata, main_results, exit_how, exit_code,
                   loadVars, fbVars, chunkVars, storeVars>>

\* main.py lines 64-76: the expand call and the search call of one question
ExpandEvent(user_question, similar) ==
    [op |-> "expand", question |-> user_question, failed |-> similar.failed,
     ret |-> similar.ret]
SearchEvent(user_question, similar, search_results) ==
    [op |-> "search", query |-> QueryWith(user_question, similar.ret), k |-> SearchK,
     similarity_threshold |-> SearchThreshold, ret |-> search_results]

\* main.py lines 64-95: a question whose search returned results is answered
Answer ==
    /\ main_pc = "prompt"
    /\ \E typed \in InputLines :
        LET user_question == Strip(typed)
        IN  /\ ~IsQuit(user_question)
            /\ user_question # <<>>
            /\ line' = typed
            /\ \E similar \in generate_similar_question,
                  search_results \in search_similar_chunks,
                  ai_response \in generate_response :
                /\ search_results # <<>>
                /\ events' = << ExpandEvent(user_question, similar),
                                SearchEvent(user_question, similar, search_results),
                                [op |-> "compose", question |-> user_question,
                                 relevant_chunks |-> search_results,
                                 failed |-> ai_response.failed, ret |-> ai_response.ret],
                                [op |-> "display", text |-> ai_response.ret] >>
    /\ UNCHANGED <<main_pc, kb_file, db_detected, db_file, db_records, build, m_sections,
                   m_chunks, m_metadata, main_results, exit_how, exit_code,
                   loadVars, fbVars, chunkVars, storeVars>>

\* main.py lines 64-78, 97-98: the search returned nothing
NoRelevantChunks ==
    /\ main_pc = "prompt"
    /\ \E typed \in InputLines :
        LET user_question == Strip(typed)
        IN  /\ ~IsQuit(user_question)
            /\ user_question # <<>>
            /\ line' = typed
            /\ \E similar \in generate_similar_question,
                  search_results \in search_similar_chunks :
                /\ search_results = <<>>
                /\ events' = << ExpandEvent(user_question, similar),
                                SearchEvent(user_question, similar, search_results),
                                [op |-> "report", message |-> "No relevant chunks found."] >>
    /\ UNCHANGED <<main_pc, kb_file, db_detected, db_file, db_records, build, m_sections,
                   m_chunks, m_metadata, main_results, exit_how, exit_code,
                   loadVars, fbVars, chunkVars, storeVars>>

MainNext ==
    \/ CheckDatabase \/ UseExisting \/ UseExistingRaises
    \/ AcceptBuild \/ DeclineBuild
    \/ BuildLoad \/ BuildChunk \/ BuildChunkerRaises
    \/ BuildAnalyze \/ BuildAnalyzeRaises
    \/ BuildIngest \/ BuildStoreRaises
    \/ Quit \/ EmptyInput \/ Answer \/ NoRelevantChunks

MainSpec == MainInit /\ [][MainNext]_vars

(***************************************************************************)
(* Properties of the orchestrator                                          *)
(***************************************************************************)

\* C11: the process exit code is 0 whenever the run ends by a graceful end of the
\* question loop or by the operator declining the build, and 1 whenever the build
\* (load, chunk, ingest) fails before the query loop is reached.
C11_ExitCodeByEnding ==
    main_pc = "exited" =>
        /\ (exit_how \in {"quit", "declined"}) => exit_code = 0
        /\ (exit_how = "build_failed") => exit_code = 1

QueryPhaseEntered == main_pc = "prompt" \/ exit_how = "quit"
BuildPhaseEntered == main_pc \in {"load", "chunk", "analyze", "ingest"} \/ build # NoBuild
BuildCompleted == build = [load |-> "ok", chunk |-> "ok", ingest |-> "ok"]

\* C12: the build phase runs only if no persisted store was detected at start; the
\* query phase is entered only if the store was detected at start, the build skipped
\* entirely, or if load, chunk and ingest all completed and ingest returned success;
\* after a failed load, chunk or ingest the query loop is never entered.
C12_QueryPhaseNeedsStore ==
    /\ BuildPhaseEntered => ~db_detected
    /\ QueryPhaseEntered => \/ db_detected /\ build = NoBuild
                            \/ ~db_detected /\ BuildCompleted
    /\ ("failed" \in {build.load, build.chunk, build.ingest}) => ~QueryPhaseEntered
C12_Witness_LoopAfterBuild ==
    main_pc = "prompt" /\ ~db_detected /\ BuildCompleted /\ Len(db_records) = 2

QuitKeywords == {<<"q", "u", "i", "t">>, <<"e", "x", "i", "t">>, <<"q">>}
NoCalls(ev) == \A j \in 1..Len(ev) : ev[j].op \notin {"expand", "search", "compose"}

\* C13: at the prompt, a line whose trimmed text is quit, exit or q in any letter case
\* ends the loop, run_search_mode returning success, with no expand, search or compose
\* call; a line whose trimmed text is empty makes no call and the prompt comes again;
\* the loop ends on a quit keyword only.
C13_QuitAndEmptyInput ==
    [][main_pc = "prompt" =>
        LET trimmed == Strip(line')
        IN  /\ (Lower(trimmed) \in QuitKeywords) =>
                   main_pc' = "exited" /\ main_results' = "True" /\ NoCalls(events')
            /\ (trimmed = <<>>) => main_pc' = "prompt" /\ NoCalls(events')
            /\ (main_pc' # "prompt") => Lower(trimmed) \in QuitKeywords]_vars
C13_Witness_MixedCaseQuit ==
    main_pc = "exited" /\ exit_how = "quit" /\ line = <<"Q", "u", "I", "T">>
    /\ main_results = "True" /\ events = <<>>

\* C14: when the chat service fails, the expand call returns a sequence of exactly one
\* element, the formatted error string, so that the query built from the question and
\* the expansions is the question and one more line.
C14_ExpandFailureIsOneLine ==
    \A j \in 1..Len(events) :
        (events[j].op = "expand" /\ events[j].failed) =>
            /\ events[j].ret.type = "list"
            /\ Len(events[j].ret.items) = 1
            /\ \E e \in ServiceErrors :
                /\ events[j].ret.items[1] = SimilarQuestionErrorPrefix \o e
                /\ events[j + 1].query =
                       events[j].question \o <<NL>> \o SimilarQuestionErrorPrefix \o e

\* The expansions a returned value stands for: the items of a list, a string as the one
\* expansion it is.
ExpansionsOf(ret) == IF ret.type = "list" THEN ret.items ELSE <<ret.value>>

\* C16: for a question that is neither empty nor a quit keyword the loop makes one
\* expand call, then one search whose query is the question joined with the expansions,
\* k = 5 and threshold 0.9, then a compose call exactly when the search returned a
\* result, displaying what compose returned, failure string or answer alike; with no
\* result there is no compose call and the no-relevant-content message is reported; the
\* prompt comes again.
C16_QuestionIsExpandedSearchedAnswered ==
    [][(main_pc = "prompt" /\ Strip(line') # <<>>
            /\ Lower(Strip(line')) \notin QuitKeywords) =>
        LET q == Strip(line')
            ev == events'
        IN  /\ main_pc' = "prompt"
            /\ Len(ev) >= 3
            /\ ev[1].op = "expand" /\ ev[1].question = q
            /\ ev[2].op = "search" /\ ev[2].k = 5 /\ ev[2].similarity_threshold = 90
            /\ ev[2].query = q \o <<NL>> \o JoinLines(ExpansionsOf(ev[1].ret))
            /\ IF ev[2].ret # <<>>
               THEN /\ Len(ev) = 4
                    /\ ev[3].op = "compose" /\ ev[3].question = q
                    /\ ev[3].relevant_chunks = ev[2].ret
                    /\ ev[4] = [op |-> "display", text |-> ev[3].ret]
               ELSE /\ Len(ev) = 3
                    /\ ev[3] = [op |-> "report", message |-> "No relevant chunks found."]]_vars

=============================================================================
